---- MODULE Spec2Model ----
(***************************************************************************)
(* Model of ThemeService (src/src/app/theme/theme.service.ts): the theme   *)
(* coordinator that renders a dark or a light theme, persists the user's   *)
(* choice under the local-storage key 'theme', and follows the operating   *)
(* system preference through a 'change' listener on the media query        *)
(* '(prefers-color-scheme: dark)' when the user has made no choice.        *)
(*                                                                         *)
(* JavaScript values are modelled as strings: "true", "false" and          *)
(* "undefined".  Every method of the service is an operator from a world   *)
(* record (service fields, local storage, DOM, media query) to the world   *)
(* after the call; the actions apply these operators to the variables.     *)
(***************************************************************************)
EXTENDS Naturals, Sequences, FiniteSets, TLC

VARIABLES
    localStorage,        \* value stored under SETTINGS_KEY, or NoItem
    osDark,              \* matchMedia(SYSTEM_DARK_MODE_MEDIA_QUERY).matches
    hasDefaultView,      \* document.defaultView is not null
    constructed,         \* the constructor returned a service instance
    settings,            \* this.settings
    destructionSubject,  \* this.destructionSubject is not null
    listeners,           \* live 'change' listeners on the media query list
    linkElement,         \* this._kendouiStylesheetHtmlElement is set
    headLinks,           \* link elements appended to <head> by the service
    href,                \* href of the stylesheet link element
    bodyClass,           \* <body> carries LIGHT_MODE_CSS_CLASS_NAME
    applierCalls,        \* setMode invocations made by the last step
    lastOp,              \* the last step: operation, argument, listeners before
    prevOp,              \* the step before the last one
    destroyed            \* ngOnDestroy has been called on this instance

vars == <<localStorage, osDark, hasDefaultView, constructed, settings,
          destructionSubject, listeners, linkElement, headLinks, href,
          bodyClass, applierCalls, lastOp, prevOp, destroyed>>

----------------------------------------------------------------------------
(* JavaScript values and the persisted strings                              *)

JSBool == {"true", "false"}

Truthy(v) == v = "true"

NoItem == "<no item>"

DarkRecord == "{\"darkMode\":true}"

LightRecord == "{\"darkMode\":false}"

EmptyRecord == "{}"

CorruptRecord == "{darkMode"

NoHref == "<no href>"

DarkStylesheet == "kendoui-dark.css"

LightStylesheet == "kendoui-light.css"

\* The contents local storage may hold when a page is loaded.
StoredValues == {NoItem, DarkRecord, LightRecord, CorruptRecord}

\* new ThemeSettings(): darkMode = false
ThemeSettings == [darkMode |-> "false"]

\* JSON.stringify of a settings object: an undefined member is omitted.
JSONstringify(s) ==
    IF s.darkMode = "undefined" THEN EmptyRecord
    ELSE IF s.darkMode = "true" THEN DarkRecord
    ELSE LightRecord

\* JSON.parse of a stored string: the parsed object, or a thrown SyntaxError.
JSONparse(str) ==
    IF str = DarkRecord THEN [kind |-> "object", darkMode |-> "true"]
    ELSE IF str = LightRecord THEN [kind |-> "object", darkMode |-> "false"]
    ELSE IF str = EmptyRecord THEN [kind |-> "object", darkMode |-> "undefined"]
    ELSE [kind |-> "throw", darkMode |-> "undefined"]

----------------------------------------------------------------------------
(* The world a method runs in                                               *)

World ==
    [localStorage |-> localStorage, osDark |-> osDark,
     hasDefaultView |-> hasDefaultView, constructed |-> constructed,
     settings |-> settings, destructionSubject |-> destructionSubject,
     listeners |-> listeners, linkElement |-> linkElement,
     headLinks |-> headLinks, href |-> href, bodyClass |-> bodyClass,
     applierCalls |-> 0]

\* A freshly loaded page: empty DOM, no service instance, no listener.
NewPage(store, os, win) ==
    [localStorage |-> store, osDark |-> os, hasDefaultView |-> win,
     constructed |-> FALSE, settings |-> [darkMode |-> "undefined"],
     destructionSubject |-> FALSE, listeners |-> 0, linkElement |-> FALSE,
     headLinks |-> 0, href |-> NoHref, bodyClass |-> FALSE,
     applierCalls |-> 0]

setLocalStorageItem(w, value) ==
    [w EXCEPT !.localStorage = JSONstringify(value)]

getLocalStorageItem(w) ==
    IF w.localStorage # NoItem /\ w.localStorage # ""
    THEN JSONparse(w.localStorage)
    ELSE [kind |-> "undefined", darkMode |-> "undefined"]

removeLocalStorageItem(w) ==
    [w EXCEPT !.localStorage = NoItem]

\* Variant: the stored settings are returned, not the media query.
isSystemDark_stored(w) == w.settings.darkMode

\* Variant: the media query is read without the check of defaultView.
isSystemDark_noGuard(w) == w.osDark

isSystemDark(w) ==
    IF w.hasDefaultView THEN w.osDark ELSE "undefined"

\* Variant: the getter creates and appends a link element on every use.
kendouiStylesheetHtmlElement_always(w) ==
    [w EXCEPT !.linkElement = TRUE, !.headLinks = @ + 1]

\* The getter creates and appends the link element on first use only.
kendouiStylesheetHtmlElement(w) ==
    IF ~w.linkElement
    THEN [w EXCEPT !.linkElement = TRUE, !.headLinks = @ + 1]
    ELSE w

setKendoUiControlsMode(w, stylesheetFilePath) ==
    [kendouiStylesheetHtmlElement(w) EXCEPT !.href = stylesheetFilePath]

\* Variant: the light branch toggles the marker class, not adds it.
setMode_toggle(w, darkMode) ==
    LET counted == [w EXCEPT !.applierCalls = @ + 1]
    IN  IF Truthy(darkMode)
        THEN setKendoUiControlsMode([counted EXCEPT !.bodyClass = FALSE],
                                    DarkStylesheet)
        ELSE setKendoUiControlsMode([counted EXCEPT !.bodyClass = ~@],
                                    LightStylesheet)

\* Variant: the dark branch does not remove the marker class.
setMode_keepClass(w, darkMode) ==
    LET counted == [w EXCEPT !.applierCalls = @ + 1]
    IN  IF Truthy(darkMode)
        THEN setKendoUiControlsMode(counted, DarkStylesheet)
        ELSE setKendoUiControlsMode([counted EXCEPT !.bodyClass = TRUE],
                                    LightStylesheet)

setMode(w, darkMode) ==
    LET counted == [w EXCEPT !.applierCalls = @ + 1]
    IN  IF Truthy(darkMode)
        THEN setKendoUiControlsMode([counted EXCEPT !.bodyClass = FALSE],
                                    DarkStylesheet)
        ELSE setKendoUiControlsMode([counted EXCEPT !.bodyClass = TRUE],
                                    LightStylesheet)

apply(w) == setMode(w, w.settings.darkMode)

\* Variant: the guard on an existing destructionSubject is missing.
startSystemModeSynchronization_noGuard(w) ==
    IF w.hasDefaultView
    THEN [w EXCEPT !.destructionSubject = TRUE, !.listeners = @ + 1]
    ELSE w

startSystemModeSynchronization(w) ==
    IF ~w.destructionSubject /\ w.hasDefaultView
    THEN [w EXCEPT !.destructionSubject = TRUE, !.listeners = @ + 1]
    ELSE w

\* Variant: the subject is dropped without next(), the listener stays.
stopSystemModeSynchronization_noNext(w) ==
    IF w.destructionSubject
    THEN [w EXCEPT !.destructionSubject = FALSE]
    ELSE w

stopSystemModeSynchronization(w) ==
    IF w.destructionSubject
    THEN [w EXCEPT !.destructionSubject = FALSE, !.listeners = @ - 1]
    ELSE w

\* Variant: the destroy hook does nothing.
ngOnDestroy_noop(w) == w

\* Variant: the destroy hook also clears the persisted record.
ngOnDestroy_clearRecord(w) ==
    removeLocalStorageItem(stopSystemModeSynchronization(w))

ngOnDestroy(w) == stopSystemModeSynchronization(w)

\* Variant: the persisted record is not removed.
setSystemMode_keepRecord(w) ==
    LET darkMode == isSystemDark(w)
    IN  startSystemModeSynchronization(setMode(w, darkMode))

setSystemMode(w) ==
    LET darkMode == isSystemDark(w)
    IN  removeLocalStorageItem(
            startSystemModeSynchronization(setMode(w, darkMode)))

\* Variant: the settings are persisted before they are updated.
setUserDefinedMode_persistFirst(w, darkMode) ==
    LET stopped == stopSystemModeSynchronization(setMode(w, darkMode))
        saved == setLocalStorageItem(stopped, stopped.settings)
    IN  [saved EXCEPT !.settings.darkMode = darkMode]

\* Variant: the synchronization is not stopped.
setUserDefinedMode_noStop(w, darkMode) ==
    LET updated == [setMode(w, darkMode) EXCEPT !.settings.darkMode = darkMode]
    IN  setLocalStorageItem(updated, updated.settings)

\* Variant: the chosen mode is stored and persisted but not rendered.
setUserDefinedMode_noRender(w, darkMode) ==
    LET stopped == stopSystemModeSynchronization(w)
        updated == [stopped EXCEPT !.settings.darkMode = darkMode]
    IN  setLocalStorageItem(updated, updated.settings)

setUserDefinedMode(w, darkMode) ==
    LET stopped == stopSystemModeSynchronization(setMode(w, darkMode))
        updated == [stopped EXCEPT !.settings.darkMode = darkMode]
    IN  setLocalStorageItem(updated, updated.settings)

setLightMode(w) == setUserDefinedMode(w, "false")

setDarkMode(w) == setUserDefinedMode(w, "true")

\* Variant: the settings seeded from the operating system are persisted.
constructor_persistSeed(w) ==
    LET loaded == getLocalStorageItem(w)
    IN  IF loaded.kind = "throw" THEN w
        ELSE IF loaded.kind = "object"
        THEN [w EXCEPT !.constructed = TRUE,
                       !.settings = [darkMode |-> loaded.darkMode]]
        ELSE LET seeded == [w EXCEPT !.constructed = TRUE,
                                     !.settings = [ThemeSettings EXCEPT
                                                     !.darkMode = isSystemDark(w)]]
             IN  startSystemModeSynchronization(
                     setLocalStorageItem(seeded, seeded.settings))

\* Variant: the synchronization is not started when nothing is persisted.
constructor_noStart(w) ==
    LET loaded == getLocalStorageItem(w)
    IN  IF loaded.kind = "throw" THEN w
        ELSE IF loaded.kind = "object"
        THEN [w EXCEPT !.constructed = TRUE,
                       !.settings = [darkMode |-> loaded.darkMode]]
        ELSE [w EXCEPT !.constructed = TRUE,
                       !.settings = [ThemeSettings EXCEPT
                                       !.darkMode = isSystemDark(w)]]

\* Variant: the persisted settings are loaded but the operating system
\* preference is followed all the same.
constructor_alwaysFollow(w) ==
    LET loaded == getLocalStorageItem(w)
    IN  IF loaded.kind = "throw" THEN w
        ELSE IF loaded.kind = "object"
        THEN startSystemModeSynchronization(
                 [w EXCEPT !.constructed = TRUE,
                           !.settings = [darkMode |-> loaded.darkMode]])
        ELSE startSystemModeSynchronization(
                 [w EXCEPT !.constructed = TRUE,
                           !.settings = [ThemeSettings EXCEPT
                                           !.darkMode = isSystemDark(w)]])

\* The constructor, run on a freshly loaded page.  A SyntaxError thrown by
\* JSON.parse leaves the page without a service instance.
constructor(w) ==
    LET loaded == getLocalStorageItem(w)
    IN  IF loaded.kind = "throw" THEN w
        ELSE IF loaded.kind = "object"
        THEN [w EXCEPT !.constructed = TRUE,
                       !.settings = [darkMode |-> loaded.darkMode]]
        ELSE startSystemModeSynchronization(
                 [w EXCEPT !.constructed = TRUE,
                           !.settings = [ThemeSettings EXCEPT
                                           !.darkMode = isSystemDark(w)]])

\* Variant: the subscriber renders the stored settings, not the event.
onChange_stored(w, matches) == setMode(w, w.settings.darkMode)

\* The subscriber of the 'change' event: e is the MediaQueryListEvent.
onChange(w, matches) == setMode(w, matches)

\* The host delivers one 'change' event to each of the n live listeners.
RECURSIVE Dispatch(_, _, _)
Dispatch(w, matches, n) ==
    IF n = 0 THEN w ELSE Dispatch(onChange(w, matches), matches, n - 1)

----------------------------------------------------------------------------
(* Actions                                                                  *)

Install(w) ==
    /\ localStorage' = w.localStorage
    /\ osDark' = w.osDark
    /\ hasDefaultView' = w.hasDefaultView
    /\ constructed' = w.constructed
    /\ settings' = w.settings
    /\ destructionSubject' = w.destructionSubject
    /\ listeners' = w.listeners
    /\ linkElement' = w.linkElement
    /\ headLinks' = w.headLinks
    /\ href' = w.href
    /\ bodyClass' = w.bodyClass
    /\ applierCalls' = w.applierCalls

Log(op, arg) ==
    /\ lastOp' = [op |-> op, arg |-> arg, subBefore |-> listeners > 0]
    /\ prevOp' = lastOp
    /\ destroyed' = IF op = "ngOnDestroy" THEN TRUE
                    ELSE IF op = "constructor" THEN FALSE
                    ELSE destroyed

Init ==
    \E store \in StoredValues, os \in JSBool, win \in BOOLEAN :
        LET w == constructor(NewPage(store, os, win))
        IN  /\ localStorage = w.localStorage
            /\ osDark = w.osDark
            /\ hasDefaultView = w.hasDefaultView
            /\ constructed = w.constructed
            /\ settings = w.settings
            /\ destructionSubject = w.destructionSubject
            /\ listeners = w.listeners
            /\ linkElement = w.linkElement
            /\ headLinks = w.headLinks
            /\ href = w.href
            /\ bodyClass = w.bodyClass
            /\ applierCalls = w.applierCalls
            /\ lastOp = [op |-> "constructor", arg |-> "undefined",
                         subBefore |-> FALSE]
            /\ prevOp = [op |-> "none", arg |-> "undefined",
                         subBefore |-> FALSE]
            /\ destroyed = FALSE

\* AppComponent.ngOnInit and any later call of apply()
Apply ==
    /\ constructed
    /\ Install(apply(World))
    /\ Log("apply", "undefined")

SetDarkMode ==
    /\ constructed
    /\ Install(setDarkMode(World))
    /\ Log("setUserDefinedMode", "true")

SetLightMode ==
    /\ constructed
    /\ Install(setLightMode(World))
    /\ Log("setUserDefinedMode", "false")

SetSystemMode ==
    /\ constructed
    /\ Install(setSystemMode(World))
    /\ Log("setSystemMode", isSystemDark(World))

NgOnDestroy ==
    /\ constructed
    /\ Install(ngOnDestroy(World))
    /\ Log("ngOnDestroy", "undefined")

\* The user changes the operating system preference; the host fires one
\* 'change' event, delivered to every live listener.
OsChange ==
    \E v \in JSBool :
        /\ v # osDark
        /\ Install(Dispatch([World EXCEPT !.osDark = v], v, listeners))
        /\ Log("osChange", v)

\* A caller queries the operating system preference; the value returned is
\* logged as the argument of the step.
IsSystemDark ==
    /\ constructed
    /\ Install(World)
    /\ Log("isSystemDark", isSystemDark(World))

\* The page is loaded again: the DOM and the service are created anew and
\* the constructor runs against the same local storage.
Reload ==
    /\ Install(constructor(NewPage(localStorage, osDark, hasDefaultView)))
    /\ Log("constructor", "undefined")

Next ==
    \/ Apply
    \/ SetDarkMode
    \/ SetLightMode
    \/ SetSystemMode
    \/ NgOnDestroy
    \/ OsChange
    \/ IsSystemDark
    \/ Reload

Spec == Init /\ [][Next]_vars

----------------------------------------------------------------------------
(* Derived notions                                                          *)

\* The theme the DOM shows: "true" dark, "false" light, "undefined" if no
\* stylesheet has been set yet.
Rendered ==
    IF href = DarkStylesheet /\ ~bodyClass THEN "true"
    ELSE IF href = LightStylesheet /\ bodyClass THEN "false"
    ELSE "undefined"

RenderedIn(w) ==
    IF w.href = DarkStylesheet /\ ~w.bodyClass THEN "true"
    ELSE IF w.href = LightStylesheet /\ w.bodyClass THEN "false"
    ELSE "undefined"

Record(d) == IF d = "true" THEN DarkRecord ELSE LightRecord

\* Follow mode: no persisted record; override mode: a persisted record.
FollowMode == constructed /\ localStorage = NoItem

OverrideMode == constructed /\ localStorage \in {DarkRecord, LightRecord}

Records == {DarkRecord, LightRecord}

\* The DOM after a fresh startup against store followed by apply().
StartupThenApply(store, os, win) ==
    RenderedIn(apply(constructor(NewPage(store, os, win))))

----------------------------------------------------------------------------
(* Claims                                                                   *)

\* C1: persistence round trip.  After setUserDefinedMode(d) (setDarkMode or
\* setLightMode) the rendered theme is d and the persisted record is
\* {darkMode: d}; a fresh startup against that store followed by apply()
\* renders d again, whatever the operating system preference is then.
C1_PersistenceRoundTrip ==
    lastOp.op = "setUserDefinedMode" =>
        /\ Rendered = lastOp.arg
        /\ localStorage = Record(lastOp.arg)
        /\ \A os \in JSBool, win \in BOOLEAN :
               StartupThenApply(localStorage, os, win) = lastOp.arg

C1_Witness ==
    /\ lastOp.op = "setUserDefinedMode"
    /\ lastOp.arg = "true"
    /\ lastOp.subBefore
    /\ osDark = "false"
    /\ StartupThenApply(localStorage, osDark, hasDefaultView) = "true"

\* C2: after setSystemMode() the persisted key is absent, the rendered theme
\* is the operating system preference read by that call, and a subscription
\* is active when a window context exists.
C2_SetSystemMode ==
    lastOp.op = "setSystemMode" =>
        /\ localStorage = NoItem
        /\ Rendered = (IF Truthy(isSystemDark(World)) THEN "true" ELSE "false")
        /\ hasDefaultView => (destructionSubject /\ listeners = 1)

\* Scenario 5: override(dark), operating system light, then setSystemMode().
C2_Witness ==
    /\ prevOp.op = "setUserDefinedMode"
    /\ prevOp.arg = "true"
    /\ lastOp.op = "setSystemMode"
    /\ hasDefaultView
    /\ osDark = "false"
    /\ Rendered = "false"
    /\ listeners = 1

\* C3: in follow mode with an active subscription, once a theme has been
\* rendered, the rendered theme equals the current operating system
\* preference (also after apply() following an OS change or setSystemMode()).
C3_FollowRendersOsPreference ==
    (FollowMode /\ destructionSubject /\ listeners > 0 /\ href # NoHref) =>
        Rendered = osDark

\* C4 as stated: a subscription is active if and only if no persisted
\* record exists.
C4_SubscriptionIffNoRecord ==
    (listeners > 0) <=> (localStorage = NoItem)

\* C4 as amended: a subscription is active only if no persisted record
\* exists; and while a window context exists and ngOnDestroy has not been
\* called on the service instance, a subscription is active if and only if
\* no persisted record exists.
C4_SubscriptionOnlyInFollowMode ==
    /\ destructionSubject <=> (listeners > 0)
    /\ (listeners > 0) => (localStorage = NoItem)
    /\ (constructed /\ hasDefaultView /\ ~destroyed) =>
           ((listeners > 0) <=> (localStorage = NoItem))

C4_Witness ==
    /\ constructed /\ hasDefaultView /\ ~destroyed
    /\ lastOp.op = "setUserDefinedMode"
    /\ lastOp.subBefore
    /\ prevOp.op = "setSystemMode"
    /\ listeners = 0
    /\ localStorage \in Records

\* C5 as stated: there are never more than one live listener, and two
\* setSystemMode() calls in a row leave exactly one live subscription.
C5_ExactlyOneAfterSetSystemModeTwice ==
    /\ listeners <= 1
    /\ (prevOp.op = "setSystemMode" /\ lastOp.op = "setSystemMode") =>
           listeners = 1

\* C5 as amended: there are never more than one live listener; two
\* setSystemMode() calls in a row leave exactly one live subscription when a
\* window context exists and none otherwise; one OS change makes as many
\* Applier invocations as there were live listeners, hence at most one.
C5_AtMostOneSubscription ==
    /\ listeners <= 1
    /\ (prevOp.op = "setSystemMode" /\ lastOp.op = "setSystemMode") =>
           listeners = (IF hasDefaultView THEN 1 ELSE 0)
    /\ lastOp.op = "osChange" =>
           applierCalls = (IF lastOp.subBefore THEN 1 ELSE 0)

C5_Witness ==
    /\ prevOp.op = "setSystemMode"
    /\ prevOp.subBefore
    /\ lastOp.op = "setSystemMode"
    /\ lastOp.subBefore
    /\ listeners = 1

\* C6: setUserDefinedMode(d) ends with no active subscription and d
\* rendered; while the persisted record it wrote exists (until
\* setSystemMode() removes it) an OS change makes no Applier invocation and
\* leaves the marker class and the stylesheet as they were.
C6_UserModeIgnoresOsChanges ==
    [][ /\ (lastOp'.op = "setUserDefinedMode") =>
               (listeners' = 0 /\ ~destructionSubject'
                   /\ Rendered' = lastOp'.arg)
        /\ (localStorage \in Records /\ lastOp'.op = "osChange") =>
               (applierCalls' = 0 /\ href' = href /\ bodyClass' = bodyClass
                   /\ localStorage' = localStorage) ]_vars

C6_Witness ==
    /\ prevOp.op = "setUserDefinedMode"
    /\ prevOp.subBefore
    /\ lastOp.op = "osChange"
    /\ applierCalls = 0
    /\ Rendered = prevOp.arg
    /\ Rendered # osDark

\* C7 as stated: startup without a persisted record, for every operating
\* system preference o: follow mode, settings.darkMode = o, an active
\* subscription, apply() renders o, and the 'theme' key is not written.
C7_StartupWithoutRecord ==
    (lastOp.op = "constructor" /\ localStorage = NoItem) =>
        /\ constructed
        /\ settings.darkMode = osDark
        /\ destructionSubject /\ listeners = 1
        /\ RenderedIn(apply(World)) = osDark
        /\ apply(World).localStorage = NoItem

\* C7 as amended: the same when a window context exists; without one the
\* service is constructed with settings.darkMode undefined and no
\* subscription, apply() renders light, and the key is not written either.
C7_StartupWithoutRecordInWindow ==
    (lastOp.op = "constructor" /\ localStorage = NoItem) =>
        /\ constructed
        /\ apply(World).localStorage = NoItem
        /\ hasDefaultView =>
               /\ settings.darkMode = osDark
               /\ destructionSubject /\ listeners = 1
               /\ RenderedIn(apply(World)) = osDark
        /\ ~hasDefaultView =>
               /\ settings.darkMode = "undefined"
               /\ ~destructionSubject /\ listeners = 0
               /\ RenderedIn(apply(World)) = "false"

\* Scenario 1: no persisted key, operating system dark.
C7_Witness ==
    /\ lastOp.op = "constructor"
    /\ localStorage = NoItem
    /\ hasDefaultView
    /\ osDark = "true"
    /\ settings.darkMode = "true"
    /\ listeners = 1
    /\ href = NoHref

\* C8: startup with a persisted record {darkMode: p}: the settings are p,
\* no subscription is started, apply() renders p whatever the operating
\* system preference is, and later OS changes do not change what is
\* rendered.
C8_StartupWithRecord ==
    /\ [](\A p \in JSBool :
            (lastOp.op = "constructor" /\ localStorage = Record(p)) =>
                /\ constructed
                /\ settings.darkMode = p
                /\ ~destructionSubject /\ listeners = 0
                /\ RenderedIn(apply(World)) = p)
    /\ [](\A p \in JSBool :
            (prevOp.op = "constructor" /\ lastOp.op = "apply"
                /\ localStorage = Record(p)) => Rendered = p)
    /\ [][(OverrideMode /\ lastOp'.op = "osChange") =>
               (Rendered' = Rendered /\ settings' = settings)]_vars

\* Scenario 2: persisted {darkMode: false}, operating system dark.
C8_Witness ==
    /\ prevOp.op = "constructor"
    /\ lastOp.op = "apply"
    /\ localStorage = LightRecord
    /\ osDark = "true"
    /\ hasDefaultView
    /\ Rendered = "false"
    /\ listeners = 0

\* C9: in follow mode with an active subscription, an OS change to v makes
\* the Applier render v (marker class and stylesheet) and leaves the
\* application in follow mode with the subscription active.
C9_OsChangeRendered ==
    [][(FollowMode /\ listeners > 0 /\ lastOp'.op = "osChange") =>
           /\ applierCalls' = 1
           /\ Rendered' = lastOp'.arg
           /\ Rendered' = osDark'
           /\ FollowMode'
           /\ destructionSubject' /\ listeners' = listeners]_vars

\* Scenario 4: follow mode, light rendered, the operating system turns dark.
C9_Witness ==
    /\ lastOp.op = "osChange"
    /\ lastOp.subBefore
    /\ lastOp.arg = "true"
    /\ prevOp.op = "apply"
    /\ FollowMode
    /\ Rendered = "true"
    /\ listeners = 1

\* C10: after ngOnDestroy() the subscription is inactive, and OS changes
\* that arrive while no listener is live make no Applier call and change
\* nothing in the DOM.
C10_DestroyStopsSynchronization ==
    /\ [](lastOp.op = "ngOnDestroy" =>
              (~destructionSubject /\ listeners = 0))
    /\ [][(listeners = 0 /\ lastOp'.op = "osChange") =>
               (applierCalls' = 0 /\ listeners' = 0
                   /\ href' = href /\ bodyClass' = bodyClass)]_vars

\* Scenario 6: ngOnDestroy() with a live subscription, then an OS change.
C10_Witness ==
    /\ prevOp.op = "ngOnDestroy"
    /\ prevOp.subBefore
    /\ lastOp.op = "osChange"
    /\ applierCalls = 0
    /\ listeners = 0
    /\ href # NoHref
    /\ Rendered # osDark

\* C11: a 'theme' key holding a string that cannot be deserialized is
\* treated as absent: startup yields a service in follow mode whose
\* settings are seeded from the operating system preference, as if the key
\* were missing.
C11_CorruptRecordTreatedAsAbsent ==
    (lastOp.op = "constructor" /\ localStorage = CorruptRecord) =>
        /\ constructed
        /\ settings.darkMode = isSystemDark(World)
        /\ hasDefaultView => (destructionSubject /\ listeners = 1)

\* C12: without a window context isSystemDark() yields a value that is not
\* dark, no subscription is ever active, setSystemMode() renders light, and
\* a startup without a persisted record yields a service whose apply()
\* renders light.
C12_NoWindowContext ==
    ~hasDefaultView =>
        /\ ~Truthy(isSystemDark(World))
        /\ ~destructionSubject /\ listeners = 0
        /\ lastOp.op = "isSystemDark" => lastOp.arg = "undefined"
        /\ lastOp.op = "setSystemMode" =>
               (Rendered = "false" /\ localStorage = NoItem)
        /\ (lastOp.op = "constructor" /\ localStorage = NoItem) =>
               (constructed /\ RenderedIn(apply(World)) = "false")

C12_Witness ==
    /\ ~hasDefaultView
    /\ osDark = "true"
    /\ prevOp.op = "setUserDefinedMode"
    /\ prevOp.arg = "true"
    /\ lastOp.op = "setSystemMode"
    /\ Rendered = "false"
    /\ listeners = 0

\* C13: apply() is idempotent: a second apply() in a row leaves the marker
\* class, the stylesheet href, the persisted record, the settings and the
\* subscription as the first one left them.
C13_ApplyIdempotent ==
    /\ [](constructed =>
            LET once == apply(World)
                twice == apply(once)
            IN  [twice EXCEPT !.applierCalls = 0] =
                    [once EXCEPT !.applierCalls = 0])
    /\ [][(lastOp.op = "apply" /\ lastOp'.op = "apply") =>
              /\ bodyClass' = bodyClass /\ href' = href
              /\ localStorage' = localStorage /\ settings' = settings
              /\ destructionSubject' = destructionSubject
              /\ listeners' = listeners]_vars

C13_Witness ==
    /\ prevOp.op = "apply"
    /\ lastOp.op = "apply"
    /\ settings.darkMode = "false"
    /\ Rendered = "false"
    /\ osDark = "true"

\* C14: the marker class and the stylesheet never disagree: once the href
\* has been set it is 'kendoui-dark.css' or 'kendoui-light.css', the body
\* carries the marker class exactly when it is 'kendoui-light.css', and no
\* step on a rendered page changes one of the two without the other.
C14_MarkerMatchesStylesheet ==
    /\ [](href # NoHref =>
            /\ href \in {DarkStylesheet, LightStylesheet}
            /\ bodyClass <=> (href = LightStylesheet))
    /\ [][(href # NoHref /\ href' # NoHref) =>
              ((href' # href) <=> (bodyClass' # bodyClass))]_vars

C14_Witness ==
    /\ href = DarkStylesheet
    /\ ~bodyClass
    /\ lastOp.op = "osChange"
    /\ lastOp.subBefore
    /\ prevOp.op = "setSystemMode"
    /\ prevOp.arg = "false"

\* C15: override-mode consistency: whenever a persisted record exists, the
\* in-memory settings.darkMode equals the persisted darkMode and, if a theme
\* has been rendered since startup, the rendered theme is that value too.
C15_OverrideConsistency ==
    \A p \in JSBool :
        (constructed /\ localStorage = Record(p)) =>
            /\ settings.darkMode = p
            /\ href # NoHref => Rendered = p

C15_Witness ==
    /\ constructed
    /\ localStorage = DarkRecord
    /\ lastOp.op = "setUserDefinedMode"
    /\ prevOp.op = "setUserDefinedMode"
    /\ prevOp.arg = "false"
    /\ Rendered = "true"
    /\ osDark = "false"

\* C16 as stated: ngOnDestroy() is terminal: every later operation or OS
\* event on the destroyed instance leaves the mode (the persisted record)
\* and the inactive subscription as they were.
C16_DestroyIsTerminal ==
    [][(destroyed /\ lastOp'.op # "constructor") =>
           /\ localStorage' = localStorage
           /\ ~destructionSubject' /\ listeners' = 0]_vars

\* C16 as amended: ngOnDestroy() leaves the mode as it was and the
\* subscription inactive, and on a destroyed instance whose subscription is
\* inactive every OS event, apply(), isSystemDark() and further ngOnDestroy()
\* leaves the mode, the settings and the inactive subscription as they were;
\* setSystemMode() and setUserDefinedMode() still take effect.
C16_DestroyFreezesUntilModeSwitch ==
    /\ [][lastOp'.op = "ngOnDestroy" =>
              /\ localStorage' = localStorage
              /\ ~destructionSubject' /\ listeners' = 0]_vars
    /\ [][(destroyed /\ listeners = 0
              /\ lastOp'.op \in {"osChange", "apply", "isSystemDark",
                                 "ngOnDestroy"}) =>
              /\ localStorage' = localStorage
              /\ settings' = settings
              /\ ~destructionSubject' /\ listeners' = 0
              /\ destroyed']_vars
    /\ [](\A d \in JSBool :
            (destroyed /\ lastOp.op = "setUserDefinedMode" /\ lastOp.arg = d) =>
                localStorage = Record(d))
    /\ []((destroyed /\ lastOp.op = "setSystemMode") =>
            (localStorage = NoItem /\ (hasDefaultView => listeners = 1)))

C16_Witness ==
    /\ destroyed
    /\ hasDefaultView
    /\ prevOp.op = "osChange"
    /\ ~prevOp.subBefore
    /\ lastOp.op = "apply"
    /\ localStorage = NoItem
    /\ listeners = 0
    /\ Rendered # osDark

\* C17: ngOnDestroy() changes nothing but the subscription: settings,
\* persisted record, marker class and stylesheet href stay, and with no
\* active subscription (a second call included) it changes nothing at all.
C17_DestroyFrame ==
    [][lastOp'.op = "ngOnDestroy" =>
           /\ settings' = settings
           /\ localStorage' = localStorage
           /\ bodyClass' = bodyClass /\ href' = href
           /\ linkElement' = linkElement /\ headLinks' = headLinks
           /\ applierCalls' = 0
           /\ ~destructionSubject =>
                  (destructionSubject' = destructionSubject
                      /\ listeners' = listeners)]_vars

C17_Witness ==
    /\ prevOp.op = "ngOnDestroy"
    /\ prevOp.subBefore
    /\ lastOp.op = "ngOnDestroy"
    /\ ~lastOp.subBefore
    /\ localStorage = NoItem
    /\ href # NoHref
    /\ listeners = 0

\* C18: only the explicit mode switches touch the persisted store: the
\* constructor, apply(), isSystemDark(), ngOnDestroy() and OS events leave
\* the 'theme' key as it is; setUserDefinedMode(d) writes {darkMode: d} and
\* setSystemMode() removes the key.
C18_OnlyModeSwitchesTouchStore ==
    [][ /\ (localStorage' # localStorage) =>
               lastOp'.op \in {"setUserDefinedMode", "setSystemMode"}
        /\ lastOp'.op \in {"constructor", "apply", "isSystemDark",
                           "ngOnDestroy", "osChange"} =>
               localStorage' = localStorage
        /\ lastOp'.op = "setUserDefinedMode" =>
               localStorage' = Record(lastOp'.arg)
        /\ lastOp'.op = "setSystemMode" => localStorage' = NoItem ]_vars

C18_Witness ==
    /\ prevOp.op = "osChange"
    /\ prevOp.subBefore
    /\ lastOp.op = "constructor"
    /\ constructed
    /\ localStorage = NoItem
    /\ listeners = 1

\* C19: the stylesheet link element is created lazily and once: after the
\* constructor the page has no link element and an untouched DOM, a step that
\* calls the Applier leaves exactly one, a step on a page that has one keeps
\* that one, and there is never more than one.
C19_LinkElementCreatedOnce ==
    /\ [](/\ headLinks <= 1
          /\ linkElement <=> (headLinks = 1)
          /\ linkElement <=> (href # NoHref)
          /\ lastOp.op = "constructor" =>
                 (headLinks = 0 /\ ~bodyClass /\ applierCalls = 0))
    /\ [][ /\ applierCalls' > 0 => (linkElement' /\ headLinks' = 1)
           /\ (applierCalls' = 0 /\ lastOp'.op # "constructor") =>
                  (headLinks' = headLinks /\ linkElement' = linkElement)
           /\ (linkElement /\ lastOp'.op # "constructor") =>
                  (linkElement' /\ headLinks' = headLinks) ]_vars

C19_Witness ==
    /\ headLinks = 1
    /\ linkElement
    /\ lastOp.op = "osChange"
    /\ lastOp.subBefore
    /\ prevOp.op = "setSystemMode"
    /\ prevOp.arg = "true"
    /\ href = LightStylesheet

\* C20 as stated: isSystemDark() returns the operating system preference at
\* that instant and changes nothing.
C20_IsSystemDarkReturnsOsPreference ==
    [][lastOp'.op = "isSystemDark" =>
           /\ lastOp'.arg = osDark
           /\ UNCHANGED <<localStorage, osDark, hasDefaultView, constructed,
                          settings, destructionSubject, listeners,
                          linkElement, headLinks, href, bodyClass>>]_vars

\* C20 as amended: isSystemDark() returns the operating system preference
\* at that instant when a window context exists and undefined (not dark)
\* otherwise, and changes nothing.
C20_IsSystemDarkPure ==
    [][lastOp'.op = "isSystemDark" =>
           /\ lastOp'.arg = (IF hasDefaultView THEN osDark ELSE "undefined")
           /\ applierCalls' = 0
           /\ UNCHANGED <<localStorage, osDark, hasDefaultView, constructed,
                          settings, destructionSubject, listeners,
                          linkElement, headLinks, href, bodyClass>>]_vars

C20_Witness ==
    /\ lastOp.op = "isSystemDark"
    /\ lastOp.arg = "true"
    /\ prevOp.op = "osChange"
    /\ settings.darkMode = "false"
    /\ localStorage = LightRecord
    /\ Rendered = "false"

====
